---- MODULE Spec2Model ----
(***************************************************************************)
(* fluxpro: the processing pipeline of src/src/fluxpro/process.py, the     *)
(* blank correction of src/src/fluxpro/blank_handler.py, the data          *)
(* standardizer of src/src/fluxpro/data_standardizer.py and the            *)
(* configuration of src/src/fluxpro/config.py.                             *)
(*                                                                         *)
(* Each function of the pipeline has its own specification over the same   *)
(* variables: SpecLabel, SpecOrder, SpecBlank, SpecStats, SpecFlux,        *)
(* SpecTime, SpecColumns, SpecHeader and SpecSeparator; SpecRun is         *)
(* process_file as a whole, stage by stage.                                *)
(*                                                                         *)
(* A table (polars LazyFrame) is a sequence of rows, a row is a record of  *)
(* its columns.  Timestamps are whole seconds since an arbitrary origin.   *)
(* A nullable number is an exact fraction <<numerator, denominator>> with  *)
(* denominator > 0; the polars null is <<0, 0>>.                           *)
(***************************************************************************)
EXTENDS Integers, Sequences, FiniteSets, TLC

VARIABLES
    lf,      \* the table flowing through the pipeline
    input,   \* the table the current function was called with
    pc,      \* the stage reached: "standardized", "labeled", "trimmed", "flux", .., "written", "failed"
    config,  \* the Config of the run
    args,    \* the arguments of the current function besides its table or file
    result,  \* what a function that may fail did: <<"none">>, <<"return", ..>> or <<"raise", ..>>
    files    \* the output files process_file has written

vars == <<lf, input, pc, config, args, result, files>>

(***************************************************************************)
(* Bounds of the model                                                     *)
(***************************************************************************)
MaxRows == 3          \* rows of an enumerated timestamp table
MaxTick == 8          \* enumerated timestamps are 0, 30, .., 30 * MaxTick seconds
MaxCycles == 2        \* enumerated total_cycles and cycle labels
MaxSamples == 2       \* enumerated samples_per_cycle and sample labels
MaxMinutes == 2       \* enumerated minutes_per_sample
MaxDiscard == 1       \* enumerated discard_minutes
MaxFluxRows == 3      \* rows of an enumerated flux table
MaxFlux == 2          \* enumerated flux values are 0 .. MaxFlux and null
MaxIndex == 3         \* enumerated blank.index
MaxStatsRows == 3     \* rows of an enumerated blank-corrected table

SecondsPerMinute == 60
TickSeconds == 30

(***************************************************************************)
(* Generic helpers                                                         *)
(***************************************************************************)
Min(a, b) == IF a <= b THEN a ELSE b

Abs(a) == IF a < 0 THEN -a ELSE a

RECURSIVE GCD(_, _)
GCD(a, b) == IF b = 0 THEN a ELSE GCD(b, a % b)

\* integer division rounding toward zero
TruncDiv(a, b) == IF a >= 0 THEN a \div b ELSE -((-a) \div b)

RECURSIVE SeqsUpTo(_, _)
SeqsUpTo(S, n) ==
    IF n = 0 THEN {<<>>}
    ELSE LET shorter == SeqsUpTo(S, n - 1)
         IN  shorter \cup {Append(s, x) : s \in {t \in shorter : Len(t) = n - 1}, x \in S}

Count(t, r) == Cardinality({i \in DOMAIN t : t[i] = r})

Rows(t) == {t[i] : i \in DOMAIN t}

(***************************************************************************)
(* Cycle/sample labeler: process.py, label_rows_by_time                    *)
(***************************************************************************)
\* variant: minutes rounded to the nearest whole minute
total_minutes_rounded(seconds) == (seconds + 30) \div SecondsPerMinute

\* Duration.dt.total_minutes(): whole minutes, rounded toward zero
total_minutes(seconds) == TruncDiv(seconds, SecondsPerMinute)

\* variant: the minutes since the earliest row
elapsed_from_earliest(t, i) ==
    total_minutes(t[i].datetime
        - (CHOOSE m \in {t[j].datetime : j \in DOMAIN t} : \A j \in DOMAIN t : m <= t[j].datetime))

\* elapsed = (datetime - datetime.first()).dt.total_minutes()
elapsed(t, i) == total_minutes(t[i].datetime - t[1].datetime)

\* variant: the cycle label without its upper clip
cycle_of_unclipped(e, cycle_duration, cycles) == (e \div cycle_duration) + 1

\* cycle = ((elapsed / cycle_duration).floor() + 1).clip(upper_bound=cycles)
cycle_of(e, cycle_duration, cycles) == Min((e \div cycle_duration) + 1, cycles)

\* variant: the sample label taken modulo the number of samples
sample_of_mod_samples(e, cycle_duration, sample_time, samples) ==
    Min((e % samples) + 1, samples)

\* variant: the sample label without the reduction modulo the cycle duration
sample_of_whole_run(e, cycle_duration, sample_time, samples) ==
    Min((e \div sample_time) + 1, samples)

\* sample = (((elapsed % cycle_duration) / sample_time).floor() + 1).clip(upper_bound=samples)
\* (on integers the polars % has the sign of the divisor, like the TLA+ %)
sample_of(e, cycle_duration, sample_time, samples) ==
    Min(((e % cycle_duration) \div sample_time) + 1, samples)

label_rows_by_time(t, cycles, sample_time, samples) ==
    LET cycle_duration == sample_time * samples
    IN  [i \in DOMAIN t |->
            [datetime |-> t[i].datetime,
             cycle    |-> cycle_of(elapsed(t, i), cycle_duration, cycles),
             sample   |-> sample_of(elapsed(t, i), cycle_duration, sample_time, samples)]]

(***************************************************************************)
(* Transition trimmer: process.py, remove_transition_minutes               *)
(***************************************************************************)
\* the order of lf.sort(["cycle", "sample", "datetime"])
KeyLE(a, b) ==
    \/ a.cycle < b.cycle
    \/ a.cycle = b.cycle /\ a.sample < b.sample
    \/ a.cycle = b.cycle /\ a.sample = b.sample /\ a.datetime <= b.datetime

RECURSIVE InsertRow(_, _)
InsertRow(s, r) ==
    IF s = <<>> THEN <<r>>
    ELSE IF KeyLE(s[Len(s)], r) THEN Append(s, r)
    ELSE Append(InsertRow(SubSeq(s, 1, Len(s) - 1), r), s[Len(s)])

RECURSIVE SortPrefix(_, _)
SortPrefix(t, n) == IF n = 0 THEN <<>> ELSE InsertRow(SortPrefix(t, n - 1), t[n])

sort(t) == SortPrefix(t, Len(t))

\* variant: the window start taken over the cycle alone
start_times_by_cycle(t, r) ==
    LET group == {t[i].datetime : i \in {j \in DOMAIN t : t[j].cycle = r.cycle}}
    IN  CHOOSE m \in group : \A d \in group : m <= d

\* pl.col("datetime").min().over(["cycle", "sample"]), evaluated for row r of t
start_times(t, r) ==
    LET group == {t[i].datetime : i \in {j \in DOMAIN t :
                      t[j].cycle = r.cycle /\ t[j].sample = r.sample}}
    IN  CHOOSE m \in group : \A d \in group : m <= d

remove_transition_minutes(t, buffer) ==
    LET sorted == sort(t)
        Keep(r) == r.datetime >= start_times(sorted, r) + buffer * SecondsPerMinute
    IN  SelectSeq(sorted, Keep)

(***************************************************************************)
(* Inputs of the labeler                                                   *)
(***************************************************************************)
Timestamps == {TickSeconds * k : k \in 0 .. MaxTick}

TimestampTables == SeqsUpTo([datetime : Timestamps], MaxRows)

BlankConfigs == [mode : {"sample", "cycle"}, index : 1 .. MaxIndex]

SampleConfigs ==
    [total_cycles : 1 .. MaxCycles, samples_per_cycle : 1 .. MaxSamples,
     minutes_per_sample : 1 .. MaxMinutes, discard_minutes : 0 .. MaxDiscard]

\* tests/test_process.py, test_label_rows_by_time...: rows every 30 seconds
Scenario30s == [i \in 1 .. 20 |-> [datetime |-> 30 * (i - 1)]]

\* tests/test_fluxpro.py, test_assign_row_labels_by_time: 00:00:21 .. 00:09:49
ScenarioTest ==
    [i \in 1 .. 20 |-> [datetime |->
        <<21, 51, 81, 111, 140, 170, 200, 230, 260, 290,
          320, 350, 380, 409, 439, 469, 499, 529, 559, 589>>[i]]]

ScenarioConfig ==
    [samples |-> [total_cycles |-> 3, samples_per_cycle |-> 2,
                  minutes_per_sample |-> 1, discard_minutes |-> 0],
     blank   |-> [mode |-> "sample", index |-> 1]]

InitLabel ==
    /\ args = <<>>
    /\ result = <<"none">>
    /\ files = {}
    /\ pc = "standardized"
    /\ input = <<>>
    /\ \/ /\ lf \in TimestampTables
          /\ config \in [samples : SampleConfigs, blank : {[mode |-> "sample", index |-> 1]}]
       \/ /\ lf \in {Scenario30s, ScenarioTest}
          /\ config = ScenarioConfig

\* process_file: .pipe(label_rows_by_time, total_cycles, minutes_per_sample, samples_per_cycle)
LabelRows ==
    /\ pc = "standardized"
    /\ lf' = label_rows_by_time(lf, config.samples.total_cycles,
                                config.samples.minutes_per_sample,
                                config.samples.samples_per_cycle)
    /\ input' = lf
    /\ pc' = "labeled"
    /\ UNCHANGED <<config, args, result, files>>

\* process_file: .pipe(remove_transition_minutes, discard_minutes)
RemoveTransition ==
    /\ pc = "labeled"
    /\ lf' = remove_transition_minutes(lf, config.samples.discard_minutes)
    /\ input' = lf
    /\ pc' = "trimmed"
    /\ UNCHANGED <<config, args, result, files>>

NextLabel == LabelRows \/ RemoveTransition

SpecLabel == InitLabel /\ [][NextLabel]_vars

(***************************************************************************)
(* Properties of the labeler and the trimmer                               *)
(***************************************************************************)
SortedByTime(t) == \A i, j \in DOMAIN t : i <= j => t[i].datetime <= t[j].datetime

\* seconds between row i of the labeler's input and its first row
ElapsedSeconds(i) == input[i].datetime - input[1].datetime

CycleSeconds == config.samples.minutes_per_sample * config.samples.samples_per_cycle
                    * SecondsPerMinute

RunSeconds == config.samples.total_cycles * CycleSeconds

Labeled == pc = "labeled" /\ Len(lf) = Len(input)

\* C1: for rows in non-decreasing timestamp order every label is in range,
\* 1 <= cycle <= total_cycles and 1 <= sample <= samples_per_cycle, also for
\* rows later than total_cycles full cycles after the first row.
C1_LabelsInRange ==
    (pc = "labeled" /\ SortedByTime(input)) =>
        /\ Len(lf) = Len(input)
        /\ \A i \in DOMAIN lf :
            /\ 1 <= lf[i].cycle /\ lf[i].cycle <= config.samples.total_cycles
            /\ 1 <= lf[i].sample /\ lf[i].sample <= config.samples.samples_per_cycle

C1_Witness ==
    /\ Labeled /\ SortedByTime(input)
    /\ \E i \in DOMAIN input : ElapsedSeconds(i) > RunSeconds
    /\ \E i \in DOMAIN lf : lf[i].cycle = config.samples.total_cycles
                            /\ lf[i].sample = config.samples.samples_per_cycle

\* C2: for every row at or after the first row the labels are those of the
\* exact elapsed time e (in fractional minutes): cycle = min(floor(e / D) + 1,
\* total_cycles), sample = min(floor((e mod D) / minutes_per_sample) + 1,
\* samples_per_cycle); in whole seconds s = 60 e these are s div 60 D and
\* (s mod 60 D) div (60 minutes_per_sample).
C2_ExactElapsedLabels ==
    pc = "labeled" =>
        \A i \in DOMAIN lf :
            ElapsedSeconds(i) >= 0 =>
                /\ lf[i].cycle = Min((ElapsedSeconds(i) \div CycleSeconds) + 1,
                                     config.samples.total_cycles)
                /\ lf[i].sample =
                       Min(((ElapsedSeconds(i) % CycleSeconds)
                               \div (config.samples.minutes_per_sample * SecondsPerMinute)) + 1,
                           config.samples.samples_per_cycle)

C2_Witness ==
    /\ Labeled
    /\ \E i \in DOMAIN lf :
        /\ ElapsedSeconds(i) > SecondsPerMinute
        /\ ElapsedSeconds(i) % SecondsPerMinute # 0
        /\ lf[i].cycle > 1
        /\ lf[i].sample > 1

CycleNonDecreasing(t) == \A i, j \in DOMAIN t : i <= j => t[i].cycle <= t[j].cycle

\* C3 as stated: for rows sorted by timestamp the cycle label never decreases
\* and, among the rows of one cycle label, the sample label never decreases
\* from one row to the next, also when the data runs past total_cycles cycles.
C3_Original ==
    (pc = "labeled" /\ SortedByTime(input)) =>
        /\ CycleNonDecreasing(lf)
        /\ \A i \in DOMAIN lf :
            (i + 1 \in DOMAIN lf /\ lf[i].cycle = lf[i + 1].cycle)
                => lf[i].sample <= lf[i + 1].sample

\* C3 amended: the cycle label never decreases, and the sample label never
\* decreases between two rows of one cycle label when the later row is less
\* than total_cycles full cycles after the first row.
C3_MonotoneUntilClamp ==
    (pc = "labeled" /\ SortedByTime(input)) =>
        /\ CycleNonDecreasing(lf)
        /\ \A i, j \in DOMAIN lf :
            (i <= j /\ lf[i].cycle = lf[j].cycle /\ ElapsedSeconds(j) < RunSeconds)
                => lf[i].sample <= lf[j].sample

C3_Witness ==
    /\ Labeled /\ SortedByTime(input)
    /\ \E i, j \in DOMAIN lf :
        /\ i < j /\ ElapsedSeconds(j) < RunSeconds
        /\ lf[i].cycle = lf[j].cycle /\ lf[i].sample < lf[j].sample
    /\ \E i, j \in DOMAIN lf : i < j /\ lf[i].cycle < lf[j].cycle
    /\ \E j \in DOMAIN lf : ElapsedSeconds(j) >= RunSeconds

Column(t, c) == [i \in DOMAIN t |-> t[i][c]]

ClaimedCycles == <<1, 1, 1, 1, 1, 2, 2, 2, 2, 3, 3, 3, 3, 3, 3, 3, 3, 3, 3, 3>>

ClaimedSamples == <<1, 1, 2, 2, 2, 1, 1, 2, 2, 1, 1, 2, 2, 1, 1, 2, 2, 1, 1, 2>>

\* C4 as stated: 20 rows at 30-second intervals, cycles=3, minutes_per_sample=1,
\* samples_per_cycle=2, are labeled with the claimed cycle and sample sequences.
C4_Original ==
    (pc = "labeled" /\ input = Scenario30s /\ config = ScenarioConfig) =>
        /\ Column(lf, "cycle") = ClaimedCycles
        /\ Column(lf, "sample") = ClaimedSamples

\* C4 amended: the claimed sequences are the labels of the 20 timestamps of
\* test_assign_row_labels_by_time (00:00:21, 00:00:51, .. with two 29-second
\* steps); rows at exactly 30-second intervals get cycle 1,1,1,1,2,2,2,2 and
\* then 3, and sample 1,1,2,2 repeated.
C4_ScenarioLabels ==
    (pc = "labeled" /\ config = ScenarioConfig) =>
        /\ input = ScenarioTest =>
            /\ Column(lf, "cycle") = ClaimedCycles
            /\ Column(lf, "sample") = ClaimedSamples
        /\ input = Scenario30s =>
            /\ Column(lf, "cycle") = [i \in 1 .. 20 |-> IF i <= 4 THEN 1 ELSE IF i <= 8 THEN 2 ELSE 3]
            /\ Column(lf, "sample") = [i \in 1 .. 20 |-> IF (i - 1) % 4 < 2 THEN 1 ELSE 2]

C4_Witness ==
    /\ pc = "labeled" /\ config = ScenarioConfig /\ input = ScenarioTest
    /\ Len(lf) = 20 /\ lf[5].cycle = 1 /\ lf[20].cycle = 3

SortedByKey(t) == \A i, j \in DOMAIN t : i <= j => KeyLE(t[i], t[j])

\* the minimum timestamp of the rows of t labeled like r
WindowStart(t, r) ==
    CHOOSE m \in Timestamps \cup {t[i].datetime : i \in DOMAIN t} :
        /\ \E i \in DOMAIN t :
            t[i].cycle = r.cycle /\ t[i].sample = r.sample /\ t[i].datetime = m
        /\ \A i \in DOMAIN t :
            (t[i].cycle = r.cycle /\ t[i].sample = r.sample) => m <= t[i].datetime

Settled(t, r) ==
    r.datetime >= WindowStart(t, r) + config.samples.discard_minutes * SecondsPerMinute

\* C5: remove_transition_minutes returns exactly the input rows whose timestamp
\* is at least discard_minutes after the minimum timestamp of their (cycle,
\* sample) group in the input, ordered by (cycle, sample, datetime).
C5_TrimExact ==
    pc = "trimmed" =>
        /\ \A r \in Rows(lf) : r \in Rows(input) /\ Settled(input, r)
        /\ \A r \in Rows(input) : Settled(input, r) => Count(lf, r) = Count(input, r)
        /\ SortedByKey(lf)

C5_Witness ==
    /\ pc = "trimmed"
    /\ config.samples.discard_minutes > 0
    /\ ~SortedByKey(input)
    /\ Len(lf) >= 2
    /\ Len(lf) < Len(input)
    /\ \E r \in Rows(lf) : r.datetime > WindowStart(input, r)

(***************************************************************************)
(* Nullable exact numbers (polars Float64 columns)                         *)
(***************************************************************************)
Null == <<0, 0>>

IsNull(x) == x[2] = 0

Rat(n, d) == LET g == GCD(Abs(n), d) IN <<n \div g, d \div g>>

Num(k) == <<k, 1>>

\* a + b, null if either is null
RatAdd(a, b) ==
    IF IsNull(a) \/ IsNull(b) THEN Null ELSE Rat(a[1] * b[2] + b[1] * a[2], a[2] * b[2])

\* a - b, null if either is null
RatSub(a, b) ==
    IF IsNull(a) \/ IsNull(b) THEN Null ELSE Rat(a[1] * b[2] - b[1] * a[2], a[2] * b[2])

RECURSIVE RatSum(_)
RatSum(vals) == IF vals = <<>> THEN Num(0) ELSE RatAdd(Head(vals), RatSum(Tail(vals)))

NotNull(x) == ~IsNull(x)

\* pl.mean(column): the mean of the non-null values, null when there is none
mean(t, column) ==
    LET vals == SelectSeq(Column(t, column), NotNull)
        total == RatSum(vals)
    IN  IF vals = <<>> THEN Null ELSE Rat(total[1], total[2] * Len(vals))

(***************************************************************************)
(* Table operations used by the blank handler                              *)
(***************************************************************************)
RECURSIVE SetToSeq(_)
SetToSeq(S) ==
    IF S = {} THEN <<>>
    ELSE LET x == CHOOSE y \in S : TRUE IN <<x>> \o SetToSeq(S \ {x})

\* lf.drop(column)
drop(t, column) ==
    [i \in DOMAIN t |-> [c \in (DOMAIN t[i]) \ {column} |-> t[i][c]]]

KeyOf(r, by) == [c \in by |-> r[c]]

\* lf.group_by(by).agg(flux_blank_avg=pl.mean("flux")): one row per key present
group_by_mean_flux(t, by) ==
    {KeyOf(t[i], by) @@ ("flux_blank_avg" :>
            mean(SelectSeq(t, LAMBDA r : KeyOf(r, by) = KeyOf(t[i], by)), "flux"))
        : i \in DOMAIN t}

\* the rows of right whose key columns equal those of the left row l
Matches(l, right, on) == SetToSeq({b \in right : KeyOf(b, on) = KeyOf(l, on)})

\* variant: an inner join, left rows without a match are dropped
RECURSIVE inner_join(_, _, _)
inner_join(left, right, on) ==
    IF left = <<>> THEN <<>>
    ELSE LET l == Head(left)
             m == Matches(l, right, on)
         IN  [k \in DOMAIN m |-> l @@ ("flux_blank_avg" :> m[k].flux_blank_avg)]
                 \o inner_join(Tail(left), right, on)

\* left.join(right, on=on, how="left"): one output row per match of a left
\* row, and one row with a null flux_blank_avg for a left row without match
RECURSIVE left_join(_, _, _)
left_join(left, right, on) ==
    IF left = <<>> THEN <<>>
    ELSE LET l == Head(left)
             m == Matches(l, right, on)
             joined == IF m = <<>> THEN <<l @@ ("flux_blank_avg" :> Null)>>
                       ELSE [k \in DOMAIN m |-> l @@ ("flux_blank_avg" :> m[k].flux_blank_avg)]
         IN  joined \o left_join(Tail(left), right, on)

(***************************************************************************)
(* Blank handler: blank_handler.py                                         *)
(***************************************************************************)
\* variant: the blank average of a gas over all cycles
SampleBlankAvg_by_gas(t, index) ==
    {b @@ ("cycle" :> c) : b \in group_by_mean_flux(
                                drop(SelectSeq(t, LAMBDA r : r.sample = index), "sample"),
                                {"gas"}),
                           c \in {t[i].cycle : i \in DOMAIN t}}

\* SampleBlankHandler._join_blank: blank_avg
SampleBlankAvg(t, index) ==
    group_by_mean_flux(drop(SelectSeq(t, LAMBDA r : r.sample = index), "sample"),
                       {"cycle", "gas"})

\* variant: the blank's own rows are not filtered out before the join
SampleJoinBlank_unfiltered(t, index) ==
    left_join(t, SampleBlankAvg(t, index), {"cycle", "gas"})

\* SampleBlankHandler._join_blank
SampleJoinBlank(t, index) ==
    left_join(SelectSeq(t, LAMBDA r : r.sample # index),
              SampleBlankAvg(t, index), {"cycle", "gas"})

\* variant: the mean over the rows of every cycle, the blank filter left out
CycleBlankAvg_unfiltered(t, index) == group_by_mean_flux(t, {"gas"})

\* CycleBlankHandler._join_blank: blank_avg
CycleBlankAvg(t, index) ==
    group_by_mean_flux(SelectSeq(t, LAMBDA r : r.cycle = index), {"gas"})

\* variant: the blank average grouped by gas and sample but joined on gas
CycleJoinBlank_by_sample(t, index) ==
    left_join(SelectSeq(t, LAMBDA r : r.cycle # index),
              group_by_mean_flux(SelectSeq(t, LAMBDA r : r.cycle = index), {"gas", "sample"}),
              {"gas"})

\* CycleBlankHandler._join_blank
CycleJoinBlank(t, index) ==
    left_join(SelectSeq(t, LAMBDA r : r.cycle # index), CycleBlankAvg(t, index), {"gas"})

\* BlankHandler.create_handler picks the variant of _join_blank by blank.mode
join_blank(t, blank) ==
    IF blank.mode = "sample" THEN SampleJoinBlank(t, blank.index)
    ELSE CycleJoinBlank(t, blank.index)

\* BlankHandler._subtract_blank
subtract_blank(t) ==
    [i \in DOMAIN t |-> t[i] @@ ("flux_corrected" :> RatSub(t[i].flux, t[i].flux_blank_avg))]

\* BlankHandler.run
run(t, blank) == subtract_blank(join_blank(t, blank))

(***************************************************************************)
(* Inputs of the blank handler: flux records in the order process_file     *)
(* produces them, the gases one after the other (unpivot) and the rows of  *)
(* a gas by (cycle, sample, datetime) (remove_transition_minutes).         *)
(***************************************************************************)
Gases == {"CO2", "N2O"}

GasRank(g) == IF g = "CO2" THEN 1 ELSE 2

FluxValues == {Null} \cup {Num(k) : k \in 1 .. MaxFlux}

\* the labels of the enumerated flux records: two cycles of two samples
FluxCycles == 1 .. 2

FluxSamples == 1 .. 2

FluxRows == [cycle : FluxCycles, sample : FluxSamples, gas : Gases, flux : FluxValues]

PipelineOrder(a, b) ==
    \/ GasRank(a.gas) < GasRank(b.gas)
    \/ a.gas = b.gas /\ a.cycle < b.cycle
    \/ a.gas = b.gas /\ a.cycle = b.cycle /\ a.sample <= b.sample

\* the sequences of at most n rows of S in pipeline order
RECURSIVE OrderedSeqsUpTo(_, _)
OrderedSeqsUpTo(S, n) ==
    IF n = 0 THEN {<<>>}
    ELSE LET shorter == OrderedSeqsUpTo(S, n - 1)
             longest == {t \in shorter : Len(t) = n - 1}
         IN  shorter \cup
             {Append(p[1], p[2]) :
                 p \in {q \in longest \X S :
                           q[1] = <<>> \/ PipelineOrder(q[1][Len(q[1])], q[2])}}

FluxTables ==
    {[i \in DOMAIN s |-> s[i] @@ ("datetime" :> TickSeconds * (i - 1))]
        : s \in OrderedSeqsUpTo(FluxRows, MaxFluxRows)}

InitBlank ==
    /\ args = <<>>
    /\ result = <<"none">>
    /\ files = {}
    /\ pc = "flux"
    /\ input = <<>>
    /\ lf \in FluxTables
    /\ config \in [samples : {[total_cycles |-> Cardinality(FluxCycles),
                               samples_per_cycle |-> Cardinality(FluxSamples),
                               minutes_per_sample |-> 1, discard_minutes |-> 0]},
                   blank : BlankConfigs]

\* process_file: .pipe(blank_handler.run)
BlankRun ==
    /\ pc = "flux"
    /\ config.blank.mode \in {"sample", "cycle"}
    /\ lf' = run(lf, config.blank)
    /\ input' = lf
    /\ pc' = "blank_corrected"
    /\ UNCHANGED <<config, args, result, files>>

NextBlank == BlankRun

SpecBlank == InitBlank /\ [][NextBlank]_vars

(***************************************************************************)
(* Properties of the blank handler                                         *)
(***************************************************************************)
BlankDone == pc = "blank_corrected"

SampleMode == config.blank.mode = "sample"

CycleMode == config.blank.mode = "cycle"

\* r is one of the blank's own rows
IsBlankRow(r) ==
    IF SampleMode THEN r.sample = config.blank.index ELSE r.cycle = config.blank.index

\* the columns an output row has in common with the rows of the input
FluxColumns == {"cycle", "sample", "datetime", "gas", "flux"}

AsInput(o) == [c \in FluxColumns |-> o[c]]

\* the number of output rows that are the input row r with columns added
Copies(r) == Cardinality({i \in DOMAIN lf : AsInput(lf[i]) = r})

RECURSIVE SumFlux(_, _)
SumFlux(t, I) ==
    IF I = {} THEN 0
    ELSE LET i == CHOOSE j \in I : TRUE IN t[i].flux[1] + SumFlux(t, I \ {i})

\* x is the arithmetic mean of the (non-null) flux of the rows I of the input,
\* and null when none of them has a flux
IsMeanFlux(x, I) ==
    LET valued == {i \in I : ~IsNull(input[i].flux)}
    IN  IF valued = {} THEN IsNull(x)
        ELSE /\ ~IsNull(x)
             /\ x[1] * Cardinality(valued) = SumFlux(input, valued) * x[2]

\* x = a - b for non-null fractions a and b, and null if either is null
IsDifference(x, a, b) ==
    IF IsNull(a) \/ IsNull(b) THEN IsNull(x)
    ELSE ~IsNull(x) /\ x[1] * a[2] * b[2] = (a[1] * b[2] - b[1] * a[2]) * x[2]

\* C6: after BlankHandler.run no row has sample == index in sample mode and
\* no row has cycle == index in cycle mode.
C6_BlankRowsExcluded ==
    BlankDone =>
        \A i \in DOMAIN lf :
            /\ SampleMode => lf[i].sample # config.blank.index
            /\ CycleMode => lf[i].cycle # config.blank.index

C6_Witness ==
    /\ BlankDone
    /\ \E i \in DOMAIN input : IsBlankRow(input[i])
    /\ lf # <<>>

\* C7: in sample mode every output row of cycle c and gas g carries the mean
\* flux of exactly the input rows with sample == index, cycle == c, gas == g
\* as flux_blank_avg, and flux - flux_blank_avg as flux_corrected.
C7_SampleBlankMean ==
    (BlankDone /\ SampleMode) =>
        \A i \in DOMAIN lf :
            /\ IsMeanFlux(lf[i].flux_blank_avg,
                          {j \in DOMAIN input : /\ input[j].sample = config.blank.index
                                                /\ input[j].cycle = lf[i].cycle
                                                /\ input[j].gas = lf[i].gas})
            /\ IsDifference(lf[i].flux_corrected, lf[i].flux, lf[i].flux_blank_avg)

C7_Witness ==
    /\ BlankDone /\ SampleMode
    /\ \E i \in DOMAIN lf :
        /\ ~IsNull(lf[i].flux_corrected)
        /\ lf[i].flux_corrected # lf[i].flux
        /\ \E j, k \in DOMAIN input :
            /\ input[j].sample = config.blank.index /\ input[k].sample = config.blank.index
            /\ input[j].gas = lf[i].gas /\ input[k].gas = lf[i].gas
            /\ input[j].cycle = lf[i].cycle /\ input[k].cycle # lf[i].cycle
            /\ ~IsNull(input[k].flux) /\ input[k].flux # input[j].flux

\* C8: in cycle mode every output row of gas g carries the mean flux of
\* exactly the input rows with cycle == index and gas == g, over all samples,
\* as flux_blank_avg, and flux - flux_blank_avg as flux_corrected.
C8_CycleBlankMean ==
    (BlankDone /\ CycleMode) =>
        \A i \in DOMAIN lf :
            /\ IsMeanFlux(lf[i].flux_blank_avg,
                          {j \in DOMAIN input : /\ input[j].cycle = config.blank.index
                                                /\ input[j].gas = lf[i].gas})
            /\ IsDifference(lf[i].flux_corrected, lf[i].flux, lf[i].flux_blank_avg)

C8_Witness ==
    /\ BlankDone /\ CycleMode
    /\ \E i \in DOMAIN lf :
        /\ ~IsNull(lf[i].flux_corrected)
        /\ lf[i].flux_blank_avg[2] > 1
        /\ \E j, k \in DOMAIN input :
            /\ input[j].cycle = config.blank.index /\ input[k].cycle = config.blank.index
            /\ input[j].gas = lf[i].gas /\ input[k].gas = lf[i].gas
            /\ input[j].sample # input[k].sample

\* C9: every input row that is not a blank row appears exactly once in the
\* output with cycle, sample, datetime, gas and flux unchanged, and every
\* output row is such a row; a row whose other label equals index is kept.
C9_OnlyBlankRowsRemoved ==
    BlankDone =>
        /\ \A j \in DOMAIN input :
            ~IsBlankRow(input[j]) => Copies(input[j]) = Count(input, input[j])
        /\ \A i \in DOMAIN lf :
            ~IsBlankRow(AsInput(lf[i])) /\ AsInput(lf[i]) \in Rows(input)
        /\ Len(lf) = Cardinality({j \in DOMAIN input : ~IsBlankRow(input[j])})

C9_Witness ==
    /\ BlankDone /\ CycleMode
    /\ \E j \in DOMAIN input : IsBlankRow(input[j])
    /\ \E i \in DOMAIN lf : lf[i].sample = config.blank.index
    /\ \E j, k \in DOMAIN input :
        /\ IsBlankRow(input[j]) /\ IsBlankRow(input[k])
        /\ input[j].gas = input[k].gas /\ input[j].sample # input[k].sample
        /\ \E i \in DOMAIN lf : lf[i].gas = input[j].gas

\* the blank rows the average of the group of row r is taken over
BlankRowsFor(r) ==
    {j \in DOMAIN input :
        /\ IsBlankRow(input[j])
        /\ input[j].gas = r.gas
        /\ SampleMode => input[j].cycle = r.cycle}

\* C10: a non-blank row whose group has no blank row is still output, with
\* flux_blank_avg and flux_corrected null.
C10_MissingBlankIsNull ==
    BlankDone =>
        \A j \in DOMAIN input :
            (~IsBlankRow(input[j]) /\ BlankRowsFor(input[j]) = {}) =>
                /\ Copies(input[j]) >= 1
                /\ \A i \in DOMAIN lf :
                    AsInput(lf[i]) = input[j] =>
                        IsNull(lf[i].flux_blank_avg) /\ IsNull(lf[i].flux_corrected)

C10_Witness ==
    /\ BlankDone
    /\ \E j \in DOMAIN input :
        /\ ~IsBlankRow(input[j]) /\ BlankRowsFor(input[j]) = {}
        /\ ~IsNull(input[j].flux)
    /\ \E i \in DOMAIN lf : ~IsNull(lf[i].flux_blank_avg)

(***************************************************************************)
(* Statistics aggregator: process.py, compute_statistics                   *)
(*                                                                         *)
(* A standard deviation is kept as the fraction under its square root:     *)
(* [sqrt |-> v] stands for the square root of v, [sqrt |-> Null] for null. *)
(***************************************************************************)
RatMul(a, b) ==
    IF IsNull(a) \/ IsNull(b) THEN Null ELSE Rat(a[1] * b[1], a[2] * b[2])

\* a / n for a whole number n > 0
RatDivInt(a, n) == IF IsNull(a) THEN Null ELSE Rat(a[1], a[2] * n)

\* variant: the window without the gas
SameGroup_any_gas(a, b) == a.sample = b.sample /\ a.cycle = b.cycle

\* .over(["sample", "cycle", "gas"])
SameGroup(a, b) == a.sample = b.sample /\ a.cycle = b.cycle /\ a.gas = b.gas

\* the rows of t in the window of row r
Window(t, r) == SelectSeq(t, LAMBDA x : SameGroup(x, r))

\* the square of pl.std(column): the variance with the n - 1 denominator over
\* the non-null values, null when there are fewer than two of them
variance(t, column) ==
    LET vals == SelectSeq(Column(t, column), NotNull)
        m == mean(t, column)
        squares == [i \in DOMAIN vals |-> RatMul(RatSub(vals[i], m), RatSub(vals[i], m))]
    IN  IF Len(vals) <= 1 THEN Null ELSE RatDivInt(RatSum(squares), Len(vals) - 1)

\* pl.std(column)
std(t, column) == [sqrt |-> variance(t, column)]

\* pl.std(column) / pl.len().sqrt(): pl.len() counts every row of the window
sem(t, column) == [sqrt |-> RatDivInt(variance(t, column), Len(t))]

compute_statistics(t) ==
    [i \in DOMAIN t |->
        t[i] @@ ("flux_corrected_avg" :> mean(Window(t, t[i]), "flux_corrected"))
             @@ ("flux_corrected_std" :> std(Window(t, t[i]), "flux_corrected"))
             @@ ("flux_corrected_sem" :> sem(Window(t, t[i]), "flux_corrected"))]

(***************************************************************************)
(* Output reshaper: process.py, reformat_for_output                        *)
(*                                                                         *)
(* The column name gas + "_" + metric is kept as the pair <<gas, metric>>, *)
(* an output row is [cycle, sample, datetime, columns], columns mapping    *)
(* every column name of the pivot to the row's value.                      *)
(***************************************************************************)
\* the index of the unpivot
UnpivotIndex == {"cycle", "sample", "datetime", "gas"}

\* the value columns a table can have, in the order they are added
ValueColumns ==
    <<"flux", "flux_blank_avg", "flux_corrected",
      "flux_corrected_avg", "flux_corrected_std", "flux_corrected_sem">>

\* variant: only the four corrected metrics are unpivoted
unpivot_on_corrected(t) ==
    IF t = <<>> THEN <<>>
    ELSE SelectSeq(ValueColumns,
                   LAMBDA c : c \in (DOMAIN t[1]) \ {"flux", "flux_blank_avg"})

\* lf.unpivot(index=..) without "on": every column that is not an index column
unpivot_on(t) ==
    IF t = <<>> THEN <<>>
    ELSE SelectSeq(ValueColumns, LAMBDA c : c \in (DOMAIN t[1]) \ UnpivotIndex)

\* the long rows of one metric, with column_name = gas + "_" + metric
LongRows(t, metric) ==
    [i \in DOMAIN t |->
        [cycle |-> t[i].cycle, sample |-> t[i].sample, datetime |-> t[i].datetime,
         gas |-> t[i].gas, metric |-> metric, value |-> t[i][metric],
         column_name |-> <<t[i].gas, metric>>]]

RECURSIVE ConcatLong(_, _)
ConcatLong(t, metrics) ==
    IF metrics = <<>> THEN <<>>
    ELSE LongRows(t, Head(metrics)) \o ConcatLong(t, Tail(metrics))

\* lf.unpivot(..).with_columns(column_name): the metrics one after the other
unpivot_metrics(t) == ConcatLong(t, unpivot_on(t))

PivotIndex(r) == [cycle |-> r.cycle, sample |-> r.sample, datetime |-> r.datetime]

\* the null of a column
NullOf(column_name) ==
    IF column_name[2] \in {"flux_corrected_std", "flux_corrected_sem"}
    THEN [sqrt |-> Null] ELSE Null

\* the long rows of one cell of the pivot
Cell(long, index, column_name) ==
    SelectSeq(long, LAMBDA r : PivotIndex(r) = index /\ r.column_name = column_name)

\* variant: aggregate_function="last"
aggregate_last(long, index, column_name) ==
    LET cell == Cell(long, index, column_name)
    IN  IF cell = <<>> THEN NullOf(column_name) ELSE cell[Len(cell)].value

\* aggregate_function="first"
aggregate_first(long, index, column_name) ==
    LET cell == Cell(long, index, column_name)
    IN  IF cell = <<>> THEN NullOf(column_name) ELSE cell[1].value

\* the distinct index values of long in the order of their first appearance
RECURSIVE Distinct(_)
Distinct(keys) ==
    IF keys = <<>> THEN <<>>
    ELSE LET rest == Distinct(SubSeq(keys, 1, Len(keys) - 1))
             last == keys[Len(keys)]
         IN  IF \E i \in DOMAIN rest : rest[i] = last THEN rest ELSE Append(rest, last)

\* df.pivot(index=["cycle", "sample", "datetime"], on="column_name", values="value",
\*          aggregate_function="first")
pivot(long) ==
    LET index == Distinct([i \in DOMAIN long |-> PivotIndex(long[i])])
        names == {long[i].column_name : i \in DOMAIN long}
    IN  [k \in DOMAIN index |->
            index[k] @@ ("columns" :>
                [n \in names |-> aggregate_first(long, index[k], n)])]

reformat_for_output(t) == sort(pivot(unpivot_metrics(t)))

(***************************************************************************)
(* Inputs of the statistics: blank-corrected records in any order          *)
(***************************************************************************)
\* flux, flux_blank_avg and flux_corrected = flux - flux_blank_avg of a row
CorrectedValues ==
    {[flux |-> f, flux_blank_avg |-> b, flux_corrected |-> RatSub(f, b)]
        : f \in {Num(1), Num(2)}, b \in {Num(1)}}
    \cup {[flux |-> Num(1), flux_blank_avg |-> Null, flux_corrected |-> Null]}

\* the (cycle, datetime) of the enumerated records; all have sample 1
StatsSlots ==
    {[cycle |-> 1, sample |-> 1, datetime |-> 0],
     [cycle |-> 1, sample |-> 1, datetime |-> TickSeconds],
     [cycle |-> 2, sample |-> 1, datetime |-> 0]}

\* both gases in the first cycle, one gas in the second
SlotGases(k) == IF k.cycle = 1 THEN Gases ELSE {"CO2"}

CorrectedRows ==
    UNION {{k @@ ("gas" :> g) @@ v : g \in SlotGases(k), v \in CorrectedValues} : k \in StatsSlots}

CorrectedTables(n) == SeqsUpTo(CorrectedRows, n)

InitStats ==
    /\ pc = "blank_corrected"
    /\ input = <<>>
    /\ args = <<>>
    /\ result = <<"none">>
    /\ files = {}
    /\ lf \in CorrectedTables(MaxStatsRows)
    /\ config = ScenarioConfig

\* process_file: .pipe(compute_statistics)
ComputeStatistics ==
    /\ pc = "blank_corrected"
    /\ lf' = compute_statistics(lf)
    /\ input' = lf
    /\ pc' = "statistics"
    /\ UNCHANGED <<config, args, result, files>>

\* process_file: .pipe(reformat_for_output)
ReformatForOutput ==
    /\ pc = "statistics"
    /\ lf' = reformat_for_output(lf)
    /\ input' = lf
    /\ pc' = "output"
    /\ UNCHANGED <<config, args, result, files>>

NextStats == ComputeStatistics \/ ReformatForOutput

SpecStats == InitStats /\ [][NextStats]_vars

(***************************************************************************)
(* Properties of the statistics and the reshaper                           *)
(***************************************************************************)
\* the rows of the input in the (sample, cycle, gas) group of row i
GroupOf(i) ==
    {j \in DOMAIN input : /\ input[j].sample = input[i].sample
                          /\ input[j].cycle = input[i].cycle
                          /\ input[j].gas = input[i].gas}

RECURSIVE SumCorrected(_)
SumCorrected(I) ==
    IF I = {} THEN 0
    ELSE LET i == CHOOSE j \in I : TRUE
         IN  input[i].flux_corrected[1] + SumCorrected(I \ {i})

\* x is the arithmetic mean of the (non-null, whole) flux_corrected of the rows I
IsMeanCorrected(x, I) ==
    LET valued == {i \in I : ~IsNull(input[i].flux_corrected)}
    IN  IF valued = {} THEN IsNull(x)
        ELSE /\ ~IsNull(x)
             /\ \A i \in valued : input[i].flux_corrected[2] = 1
             /\ x[1] * Cardinality(valued) = SumCorrected(valued) * x[2]

\* C11: compute_statistics keeps exactly the input rows with every existing
\* column unchanged, and all rows of one (sample, cycle, gas) group carry the
\* same flux_corrected_avg, the mean of flux_corrected over the group, and the
\* same flux_corrected_std and flux_corrected_sem.
C11_WindowedStatistics ==
    pc = "statistics" =>
        /\ Len(lf) = Len(input)
        /\ \A i \in DOMAIN lf :
            /\ [c \in DOMAIN input[i] |-> lf[i][c]] = input[i]
            /\ IsMeanCorrected(lf[i].flux_corrected_avg, GroupOf(i))
            /\ \A j \in GroupOf(i) :
                /\ lf[j].flux_corrected_avg = lf[i].flux_corrected_avg
                /\ lf[j].flux_corrected_std = lf[i].flux_corrected_std
                /\ lf[j].flux_corrected_sem = lf[i].flux_corrected_sem

C11_Witness ==
    /\ pc = "statistics"
    /\ \E i, j, k \in DOMAIN lf :
        /\ j \in GroupOf(i) /\ k \notin GroupOf(i)
        /\ input[k].cycle = input[i].cycle /\ input[k].gas # input[i].gas
        /\ input[i].flux_corrected # input[j].flux_corrected
        /\ ~IsNull(input[i].flux_corrected) /\ ~IsNull(input[j].flux_corrected)
        /\ ~IsNull(input[k].flux_corrected)
        /\ lf[i].flux_corrected_avg[2] > 1
        /\ ~IsNull(lf[i].flux_corrected_std.sqrt)
        /\ lf[k].flux_corrected_avg # lf[i].flux_corrected_avg

Triples(t) == {PivotIndex(t[i]) : i \in DOMAIN t}

\* the first row of the input with the (cycle, sample, datetime) of o and gas g
FirstRow(o, g) ==
    CHOOSE j \in DOMAIN input :
        /\ PivotIndex(input[j]) = PivotIndex(o) /\ input[j].gas = g
        /\ \A k \in DOMAIN input :
            (PivotIndex(input[k]) = PivotIndex(o) /\ input[k].gas = g) => j <= k

\* C12: the table of reformat_for_output has exactly one row per distinct
\* (cycle, sample, datetime) of its input, holds the value of the first input
\* row where several rows share the triple and the gas, and is sorted by
\* (cycle, sample, datetime).
C12_OneRowPerTriple ==
    pc = "output" =>
        /\ Triples(lf) = Triples(input)
        /\ Len(lf) = Cardinality(Triples(input))
        /\ SortedByKey(lf)
        /\ \A i \in DOMAIN lf : \A n \in DOMAIN lf[i].columns :
            (\E j \in DOMAIN input :
                PivotIndex(input[j]) = PivotIndex(lf[i]) /\ input[j].gas = n[1])
            => lf[i].columns[n] = input[FirstRow(lf[i], n[1])][n[2]]

C12_Witness ==
    /\ pc = "output"
    /\ ~SortedByKey(input)
    /\ Len(lf) = 2
    /\ \E j, k \in DOMAIN input :
        /\ j < k
        /\ PivotIndex(input[j]) = PivotIndex(input[k])
        /\ input[j].gas = input[k].gas
        /\ input[j].flux_corrected # input[k].flux_corrected

GasesPresent == {input[j].gas : j \in DOMAIN input}

CorrectedMetrics ==
    {"flux_corrected", "flux_corrected_avg", "flux_corrected_std", "flux_corrected_sem"}

\* C13 as stated: besides cycle, sample and datetime the output has one column
\* {gas}_{metric} for every gas present and every metric of the four corrected
\* metrics, and no other metric appears in a column name.
C13_Original ==
    pc = "output" =>
        \A i \in DOMAIN lf :
            /\ DOMAIN lf[i] = {"cycle", "sample", "datetime", "columns"}
            /\ DOMAIN lf[i].columns = GasesPresent \X CorrectedMetrics

\* C13 amended: the metrics are six, the four corrected metrics and flux and
\* flux_blank_avg, which reformat_for_output unpivots with the others.
C13_SixMetrics ==
    pc = "output" =>
        \A i \in DOMAIN lf :
            /\ DOMAIN lf[i] = {"cycle", "sample", "datetime", "columns"}
            /\ DOMAIN lf[i].columns =
                   GasesPresent \X (CorrectedMetrics \cup {"flux", "flux_blank_avg"})

C13_Witness ==
    /\ pc = "output"
    /\ Cardinality(GasesPresent) = 2
    /\ \E i \in DOMAIN lf : \E g \in GasesPresent :
        /\ ~IsNull(lf[i].columns[<<g, "flux">>])
        /\ ~IsNull(lf[i].columns[<<g, "flux_corrected_avg">>])
        /\ \A j \in DOMAIN input : PivotIndex(input[j]) = PivotIndex(lf[i]) => input[j].gas = g

(***************************************************************************)
(* Flux calculator: process.py compute_flux                                *)
(*                                                                         *)
(* The floating point numbers of the calculation are decimal numbers       *)
(* m * 10^e with an exact fraction m, so that the molar masses and the     *)
(* factor 1e9 stay within the integers of the checker.  A product adds the *)
(* exponents, a quotient subtracts them.                                   *)
(***************************************************************************)
MaxConcRows == 2

Sci(m, e) == [m |-> m, e |-> e]

SciNull == Sci(Null, 0)

SciMul(a, b) ==
    IF IsNull(a.m) \/ IsNull(b.m) THEN SciNull
    ELSE Sci(RatMul(a.m, b.m), a.e + b.e)

\* a / b for b # 0
SciDiv(a, b) ==
    IF IsNull(a.m) \/ IsNull(b.m) THEN SciNull
    ELSE Sci(Rat(a.m[1] * b.m[2], a.m[2] * b.m[1]), a.e - b.e)

nitrogen_mass == Sci(Num(14006747), -6)

carbon_mass == Sci(Num(120111), -4)

oxygen_mass == Sci(Num(1599943), -5)

\* variant: the table without the entry of ozone
molar_masses_without_ozone ==
    << [gas |-> "NH3",    molar_mass |-> nitrogen_mass],
       [gas |-> "NO2",    molar_mass |-> nitrogen_mass],
       [gas |-> "N2O",    molar_mass |-> nitrogen_mass],
       [gas |-> "HONO",   molar_mass |-> nitrogen_mass],
       [gas |-> "NO",     molar_mass |-> nitrogen_mass],
       [gas |-> "NOY",    molar_mass |-> nitrogen_mass],
       [gas |-> "NOY-NO", molar_mass |-> nitrogen_mass],
       [gas |-> "CO",     molar_mass |-> carbon_mass],
       [gas |-> "CO2",    molar_mass |-> carbon_mass],
       [gas |-> "CH4",    molar_mass |-> carbon_mass] >>

molar_masses ==
    << [gas |-> "NH3",    molar_mass |-> nitrogen_mass],
       [gas |-> "NO2",    molar_mass |-> nitrogen_mass],
       [gas |-> "N2O",    molar_mass |-> nitrogen_mass],
       [gas |-> "O3",     molar_mass |-> oxygen_mass],
       [gas |-> "HONO",   molar_mass |-> nitrogen_mass],
       [gas |-> "NO",     molar_mass |-> nitrogen_mass],
       [gas |-> "NOY",    molar_mass |-> nitrogen_mass],
       [gas |-> "NOY-NO", molar_mass |-> nitrogen_mass],
       [gas |-> "CO",     molar_mass |-> carbon_mass],
       [gas |-> "CO2",    molar_mass |-> carbon_mass],
       [gas |-> "CH4",    molar_mass |-> carbon_mass] >>

nano == Sci(Num(1), 9)

\* lf.join(molar_masses, on="gas"): an inner join, one row per matching mass
RECURSIVE join_molar_masses(_)
join_molar_masses(t) ==
    IF t = <<>> THEN <<>>
    ELSE LET l == Head(t)
             m == SelectSeq(molar_masses, LAMBDA b : b.gas = l.gas)
         IN  [k \in DOMAIN m |-> l @@ ("molar_mass" :> m[k].molar_mass)]
                 \o join_molar_masses(Tail(t))

\* variant: the factor chamber_volume / soil_surface_area of an earlier version
flux_of_chamber_factor(concentration, flow, chamber_volume, soil_surface_area, molar_mass) ==
    SciMul(SciMul(SciDiv(SciMul(SciMul(concentration, flow), chamber_volume),
                         soil_surface_area), molar_mass), nano)

\* concentration * flow / soil_surface_area * molar_mass * nano, left to right
flux_of(concentration, flow, chamber_volume, soil_surface_area, molar_mass) ==
    SciMul(SciMul(SciDiv(SciMul(concentration, flow), soil_surface_area), molar_mass), nano)

compute_flux(t, flow, chamber_volume, soil_surface_area) ==
    LET joined == join_molar_masses(t)
        with_flux == [i \in DOMAIN joined |->
                        joined[i] @@ ("flux" :> flux_of(joined[i].concentration, flow,
                                                        chamber_volume, soil_surface_area,
                                                        joined[i].molar_mass))]
    IN  drop(drop(with_flux, "concentration"), "molar_mass")

\* the gases of the concentration table: the canonical symbols of the standardizer
KnownGases ==
    {"NH3", "NO2", "N2O", "O3", "HONO", "NO", "NOY", "NOY-NO", "CO", "CO2", "CH4"}

\* concentrations in mol/L, null where the reading is missing
Concentrations == {SciNull, Sci(Num(1), 0), Sci(Num(3), 0)}

ConcentrationRows == [gas : KnownGases, concentration : Concentrations]

\* the unpivoted table: the rows of one sample of the first cycle
ConcentrationTables(n) ==
    {[i \in DOMAIN s |-> [cycle |-> 1, sample |-> 1, datetime |-> TickSeconds * (i - 1)] @@ s[i]]
        : s \in SeqsUpTo(ConcentrationRows, n)}

\* flow_rate (L/min), chamber volume (m^3) and soil_surface_area (m^2)
FluxArguments ==
    [flow : {Sci(Num(1), 0), Sci(Num(2), 0)},
     chamber_volume : {Sci(Num(1), 0), Sci(Num(2), 0)},
     soil_surface_area : {Sci(Num(1), 0), Sci(Num(2), 0)}]

InitFlux ==
    /\ pc = "unpivoted"
    /\ input = <<>>
    /\ result = <<"none">>
    /\ files = {}
    /\ config = ScenarioConfig
    /\ lf \in ConcentrationTables(MaxConcRows)
    /\ args \in FluxArguments

ComputeFlux ==
    /\ pc = "unpivoted"
    /\ lf' = compute_flux(lf, args.flow, args.chamber_volume, args.soil_surface_area)
    /\ input' = lf
    /\ pc' = "flux"
    /\ UNCHANGED <<config, args, result, files>>

NextFlux == ComputeFlux

SpecFlux == InitFlux /\ [][NextFlux]_vars

NitrogenGases == {"NH3", "NO2", "N2O", "HONO", "NO", "NOY", "NOY-NO"}

CarbonGases == {"CO", "CO2", "CH4"}

OxygenGases == {"O3"}

\* flux = concentration * flow / soil_surface_area * mantissa * 10^exponent
IsFluxOf(flux, concentration, mantissa, exponent) ==
    IF IsNull(concentration.m) THEN IsNull(flux.m)
    ELSE /\ ~IsNull(flux.m)
         /\ flux.e = concentration.e + args.flow.e - args.soil_surface_area.e + exponent
         /\ flux.m[1] * concentration.m[2] * args.flow.m[2] * args.soil_surface_area.m[1]
              = concentration.m[1] * args.flow.m[1] * args.soil_surface_area.m[2]
                    * mantissa * flux.m[2]

MaxTimeRows == 3

MinutesPerDay == 1440

MinutesPerHour == 60

possible_formats ==
    << "%d/%m/%Y %H:%M", "%m/%d/%Y %H:%M", "%Y-%m-%d %H:%M:%S",
       "%Y/%m/%d %H:%M:%S", "%m/%d/%Y %I:%M:%S %p" >>

\* the layout of the strings a format accepts
LayoutOf(format) ==
    CASE format = "%d/%m/%Y %H:%M"       -> "a/b/Y H:M"
      [] format = "%m/%d/%Y %H:%M"       -> "a/b/Y H:M"
      [] format = "%Y-%m-%d %H:%M:%S"    -> "Y-a-b H:M:S"
      [] format = "%Y/%m/%d %H:%M:%S"    -> "Y/a/b H:M:S"
      [] format = "%m/%d/%Y %I:%M:%S %p" -> "a/b/Y I:M:S p"

MonthOf(s, format) == IF format = "%d/%m/%Y %H:%M" THEN s.b ELSE s.a

DayOf(s, format) == IF format = "%d/%m/%Y %H:%M" THEN s.a ELSE s.b

DaysInMonth == <<31, 28, 31, 30, 31, 30, 31, 31, 30, 31, 30, 31>>

RECURSIVE DaysBefore(_)
DaysBefore(month) ==
    IF month = 1 THEN 0 ELSE DaysBefore(month - 1) + DaysInMonth[month - 1]

\* str.to_datetime(format) succeeds on the string s
Parses(s, format) ==
    /\ s.layout = LayoutOf(format)
    /\ MonthOf(s, format) \in DOMAIN DaysInMonth
    /\ DayOf(s, format) \in 1 .. DaysInMonth[MonthOf(s, format)]

to_datetime(s, format) ==
    (DaysBefore(MonthOf(s, format)) + DayOf(s, format) - 1) * MinutesPerDay + s.minute

ParsesAll(t, format) == \A i \in DOMAIN t : Parses(t[i].datetime, format)

with_time(t, format) == [i \in DOMAIN t |-> [datetime |-> to_datetime(t[i].datetime, format)]]

\* pl.col("datetime").diff(null_behavior="drop")
diff(t) == [i \in 1 .. Len(t) - 1 |-> t[i + 1].datetime - t[i].datetime]

SeqMax(d) == CHOOSE x \in {d[i] : i \in DOMAIN d} : \A i \in DOMAIN d : d[i] <= x

SeqMin(d) == CHOOSE x \in {d[i] : i \in DOMAIN d} : \A i \in DOMAIN d : x <= d[i]

\* variant: every cadence is accepted
within_hour_any(range) == TRUE

\* range < datetime.timedelta(hours=1)
within_hour(range) == range < MinutesPerHour

\* the loop over possible_formats from the k-th format on: the returned table,
\* the ValueError after the last format, or the TypeError of comparing the
\* null range of a column of fewer than two rows with a timedelta
RECURSIVE try_formats(_, _)
try_formats(t, k) ==
    IF k > Len(possible_formats)
    THEN [result |-> <<"raise", "ValueError", "unexpected datetime format">>, lf |-> t]
    ELSE IF ~ParsesAll(t, possible_formats[k]) THEN try_formats(t, k + 1)
    ELSE LET lf_with_time == with_time(t, possible_formats[k])
             lf_diff == diff(lf_with_time)
         IN  IF lf_diff = <<>> THEN [result |-> <<"raise", "TypeError">>, lf |-> t]
             ELSE IF within_hour(SeqMax(lf_diff) - SeqMin(lf_diff))
                  THEN [result |-> <<"return">>, lf |-> lf_with_time]
                  ELSE try_formats(t, k + 1)

standardize_datetime(t) == try_formats(t, 1)

MinutesOfDay == {0, MinutesPerDay - 1}

\* strings like 2/1/2025 23:59, with an a or b that cannot be a month
SlashStrings ==
    [layout : {"a/b/Y H:M"}, a : {2, 13}, b : {1, 2, 13}, minute : MinutesOfDay]

\* strings like 2025-01-02 23:59:00, 2025/01/02 23:59:00 and 1/2/2025 11:59:00 PM
OtherStrings(layout) == [layout : {layout}, a : {1}, b : {1, 2}, minute : MinutesOfDay]

\* a string no format accepts, like 1/2/2025 11:00AM
Unparseable == [layout |-> "a/b/Y I:Mp", a |-> 1, b |-> 2, minute |-> 660]

\* the first column of a file: one string or more, all of one layout
TimeColumns(n) ==
    UNION {SeqsUpTo(S, n) \ {<<>>} :
             S \in {SlashStrings, OtherStrings("Y-a-b H:M:S"), OtherStrings("Y/a/b H:M:S"),
                    OtherStrings("a/b/Y I:M:S p"), {Unparseable}}}

InitTime ==
    /\ pc = "scanned"
    /\ input = <<>>
    /\ args = <<>>
    /\ result = <<"none">>
    /\ files = {}
    /\ config = ScenarioConfig
    /\ \E c \in TimeColumns(MaxTimeRows) : lf = [i \in DOMAIN c |-> [datetime |-> c[i]]]

StandardizeDatetime ==
    /\ pc = "scanned"
    /\ LET out == standardize_datetime(lf)
       IN  /\ lf' = out.lf
           /\ result' = out.result
           /\ pc' = IF out.result[1] = "return" THEN "datetime" ELSE "failed"
    /\ input' = lf
    /\ UNCHANGED <<config, args, files>>

NextTime == StandardizeDatetime

SpecTime == InitTime /\ [][NextTime]_vars

(***************************************************************************)
(* Properties of _standardize_datetime                                     *)
(***************************************************************************)
TimeDone == pc \in {"datetime", "failed"}

Formats == DOMAIN possible_formats

\* the successive differences of the input column read with the k-th format
Steps(k) ==
    {to_datetime(input[i + 1].datetime, possible_formats[k])
        - to_datetime(input[i].datetime, possible_formats[k]) : i \in 1 .. Len(input) - 1}

\* the k-th format parses every row and the steps differ by less than one hour
Passes(k) ==
    /\ ParsesAll(input, possible_formats[k])
    /\ Steps(k) # {}
    /\ \A x, y \in Steps(k) : x - y < MinutesPerHour

Earliest(k) == Passes(k) /\ \A j \in Formats : j < k => ~Passes(j)

\* C15: _standardize_datetime returns the column parsed with the earliest
\* format of the list that parses every row and whose successive differences
\* have a maximum minus minimum under one hour; it returns whenever such a
\* format exists, also when an earlier format parsed and failed the cadence.
C15_EarliestPassingFormat ==
    TimeDone =>
        /\ result[1] = "return" =>
               \E k \in Formats :
                   Earliest(k) /\ lf = with_time(input, possible_formats[k])
        /\ (\E k \in Formats : Passes(k)) => result[1] = "return"

C15_Witness ==
    /\ pc = "datetime"
    /\ \E j, k \in Formats :
        /\ j < k
        /\ ParsesAll(input, possible_formats[j]) /\ ~Passes(j)
        /\ Earliest(k)
        /\ lf = with_time(input, possible_formats[k])
        /\ lf # with_time(input, possible_formats[j])

\* C16 as stated: whenever no format parses the whole column and passes the
\* cadence check, in particular for every column of a single row, the run
\* fails with ValueError 'unexpected datetime format'.
C16_Original ==
    TimeDone =>
        ((~\E k \in Formats : Passes(k))
            => result = <<"raise", "ValueError", "unexpected datetime format">>)

(***************************************************************************)
(* Data standardizer, gas columns: the steps of run after the datetime     *)
(*                                                                         *)
(* A table is the sequence of its columns, with one row.  A column name is *)
(* the sequence of its parts between underscores and a flag for whitespace *)
(* around it; a cell is a number or a string.  The lookup table is the     *)
(* attribute GAS_IDENTIFIERS of the instance, which the tests replace.     *)
(***************************************************************************)
MaxColumns == 2

COL_DATETIME == [parts |-> <<"datetime">>, padded |-> FALSE]

GAS_IDENTIFIERS ==
    [h \in {"Ammonia / ppm (cal)", "NH3 / ppm (cal)"} |-> "NH3"]
    @@ [h \in {"NO2 (ppb)", "Nitrogen Dioxide / ppm (cal)", "NO2 / ppm (cal)"} |-> "NO2"]
    @@ [h \in {"Nitrous Oxide / ppm (cal)", "N2O / ppm (cal)"} |-> "N2O"]
    @@ [h \in {"Ozone / ppm (cal)", "O3 / ppm (cal)"} |-> "O3"]
    @@ [h \in {"HONO (ppb)"} |-> "HONO"]
    @@ [h \in {"NO Conc"} |-> "NO"]
    @@ [h \in {"NOY Conc"} |-> "NOY"]
    @@ [h \in {"NOY-NO Conc"} |-> "NOY-NO"]
    @@ [h \in {"Carbon Monoxide / ppm (cal)", "CO / ppm (cal)"} |-> "CO"]
    @@ [h \in {"CO2 (ppm)", "Carbon Dioxide / ppm (cal)", "CO2 / ppm (cal)"} |-> "CO2"]
    @@ [h \in {"Methane / ppm (cal)", "CH4 / ppm (cal)"} |-> "CH4"]

\* a replaced lookup table: the header of the unit test and two headers with
\* more than one unit marker
TestIdentifiers ==
    ("test gas (ppt)" :> "gas") @@ ("mix ppb in ppm" :> "mix") @@ ("raw ppb Conc" :> "raw")

\* the unit markers a header text contains
Markers(text) ==
    CASE text \in {"NO2 (ppb)", "HONO (ppb)"} -> {"ppb"}
      [] text \in {"NO Conc", "NOY Conc", "NOY-NO Conc"} -> {"Conc"}
      [] text = "mix ppb in ppm" -> {"ppm", "ppb"}
      [] text = "raw ppb Conc" -> {"ppb", "Conc"}
      [] text \in {"Ammonia / ppm (cal)", "NH3 / ppm (cal)", "Nitrogen Dioxide / ppm (cal)",
                   "NO2 / ppm (cal)", "Nitrous Oxide / ppm (cal)", "N2O / ppm (cal)",
                   "Ozone / ppm (cal)", "O3 / ppm (cal)", "Carbon Monoxide / ppm (cal)",
                   "CO / ppm (cal)", "CO2 (ppm)", "Carbon Dioxide / ppm (cal)",
                   "CO2 / ppm (cal)", "Methane / ppm (cal)", "CH4 / ppm (cal)"} -> {"ppm"}
      [] OTHER -> {}

\* name.strip()
strip(name) == [name EXCEPT !.padded = FALSE]

\* name in table, for a name of one part
IsKey(name, table) == ~name.padded /\ Len(name.parts) = 1 /\ name.parts[1] \in DOMAIN table

\* variant: the names are compared with the keys as they are
select_input_columns_unstripped(t, table) ==
    SelectSeq(t, LAMBDA c : IsKey(c.name, table))
        \o SelectSeq(t, LAMBDA c : c.name = COL_DATETIME)

\* lf.select(*names, "datetime") with the names whose stripped form is a key
select_input_columns(t, table) ==
    SelectSeq(t, LAMBDA c : IsKey(strip(c.name), table))
        \o SelectSeq(t, LAMBDA c : c.name = COL_DATETIME)

\* pl.col(pl.String).str.strip_chars().cast(pl.Float64, strict=False): a
\* string cell becomes its number, or null if it is no number
strip_whitespace(t) ==
    [i \in DOMAIN t |->
        IF t[i].name # COL_DATETIME /\ t[i].cell.string
        THEN [t[i] EXCEPT !.cell = [string |-> FALSE, number |-> t[i].cell.number]]
        ELSE t[i]]

\* variant: the markers are tried in the order Conc, ppb, ppm
detect_unit_conc_first(text) ==
    IF "Conc" \in Markers(text) THEN "ppm"
    ELSE IF "ppb" \in Markers(text) THEN "ppb"
    ELSE IF "ppm" \in Markers(text) THEN "ppm"
    ELSE "ValueError"

detect_unit(text) ==
    IF "ppm" \in Markers(text) THEN "ppm"
    ELSE IF "ppb" \in Markers(text) THEN "ppb"
    ELSE IF "Conc" \in Markers(text) THEN "ppm"
    ELSE "ValueError"

sanitize_column_names(name, table) ==
    LET stripped == strip(name)
    IN  IF IsKey(stripped, table)
        THEN [parts |-> <<table[stripped.parts[1]], detect_unit(stripped.parts[1])>>,
              padded |-> FALSE]
        ELSE stripped

\* column.endswith(suffix) for the names that reach _standardize_units
endswith(name, suffix) == ~name.padded /\ name.parts[Len(name.parts)] = suffix

scale_factor(name) ==
    IF endswith(name, "ppm") THEN Sci(Num(1), -6)
    ELSE IF endswith(name, "ppb") THEN Sci(Num(1), -9)
    ELSE Sci(Num(0), 0)

\* pl.col(column) * scale_factor / molar_volume: the quotient by R * T / P is
\* kept as a mark on the number
standardize_units(t) ==
    [i \in DOMAIN t |->
        IF t[i].name = COL_DATETIME THEN t[i]
        ELSE [t[i] EXCEPT !.cell =
                [scaled |-> SciMul(Sci(t[i].cell.number, 0), scale_factor(t[i].name)),
                 over |-> "molar_volume"]]]

\* name.split("_")[0]
remove_units_from_names(name) == [name EXCEPT !.parts = <<name.parts[1]>>]

rename(t, names) == [i \in DOMAIN t |-> [t[i] EXCEPT !.name = names[i]]]

HasDuplicates(names) == \E i, j \in DOMAIN names : i < j /\ names[i] = names[j]

\* the steps of run after _standardize_datetime
standardize_columns(t, table) ==
    LET selected == strip_whitespace(select_input_columns(t, table))
        sanitized == [i \in DOMAIN selected |-> sanitize_column_names(selected[i].name, table)]
        stripped == [i \in DOMAIN sanitized |-> remove_units_from_names(sanitized[i])]
    IN  IF \E i \in DOMAIN sanitized : sanitized[i].parts[Len(sanitized[i].parts)] = "ValueError"
        THEN [result |-> <<"raise", "ValueError", "failed to detect unit for column">>, lf |-> t]
        ELSE IF HasDuplicates(sanitized)
        THEN [result |-> <<"raise", "DuplicateError">>, lf |-> t]
        ELSE [result |-> <<"return">>,
              lf |-> rename(standardize_units(rename(selected, sanitized)), stripped)]

Header(text, padded) == [parts |-> <<text>>, padded |-> padded]

Number(x) == [string |-> FALSE, number |-> x]

\* a string cell: a number with whitespace around it, or no number (null)
String(x) == [string |-> TRUE, number |-> x]

\* the columns of a file after the first: headers of GAS_IDENTIFIERS with a
\* reading of 1 or 1000, headers and cells with whitespace around them, a
\* column that is no gas, and the headers of the replaced lookup table
ColumnChoices ==
    {[name |-> Header(h, FALSE), cell |-> Number(Num(x))] :
        h \in DOMAIN GAS_IDENTIFIERS, x \in {1, 1000}}
    \cup {[name |-> Header(h, TRUE), cell |-> String(x)] :
        h \in {"CO2 (ppm)", "NO2 (ppb)"}, x \in {Num(1000), Null}}
    \cup {[name |-> Header("Temperature", FALSE), cell |-> Number(Num(1))]}
    \cup {[name |-> Header(h, FALSE), cell |-> Number(Num(1000))] : h \in DOMAIN TestIdentifiers}

\* the table after _standardize_datetime: the datetime column first, then
\* columns of different names
DatetimeTables(n) ==
    {<<[name |-> COL_DATETIME, cell |-> Number(Num(0))]>> \o c :
        c \in {s \in SeqsUpTo(ColumnChoices, n) :
                 \A i, j \in DOMAIN s : i < j => s[i].name # s[j].name}}

InitColumns ==
    /\ pc = "datetime"
    /\ input = <<>>
    /\ result = <<"none">>
    /\ files = {}
    /\ config = ScenarioConfig
    /\ lf \in DatetimeTables(MaxColumns)
    /\ args \in {[GAS_IDENTIFIERS |-> GAS_IDENTIFIERS], [GAS_IDENTIFIERS |-> TestIdentifiers]}

StandardizeColumns ==
    /\ pc = "datetime"
    /\ LET out == standardize_columns(lf, args.GAS_IDENTIFIERS)
       IN  /\ lf' = out.lf
           /\ result' = out.result
           /\ pc' = IF out.result[1] = "return" THEN "standardized" ELSE "failed"
    /\ input' = lf
    /\ UNCHANGED <<config, args, files>>

NextColumns == StandardizeColumns

SpecColumns == InitColumns /\ [][NextColumns]_vars

(***************************************************************************)
(* Properties of the gas columns                                           *)
(***************************************************************************)
ColumnsDone == pc \in {"standardized", "failed"} /\ "GAS_IDENTIFIERS" \in DOMAIN args

\* the input columns whose header without the whitespace is a key of the table
Retained ==
    SelectSeq(input, LAMBDA c : /\ c.name # COL_DATETIME
                                /\ c.name.parts[1] \in DOMAIN args.GAS_IDENTIFIERS)

HeaderOf(c) == c.name.parts[1]

\* the power of ten the claim gives to a header: -6 for ppm, -9 for ppb
ClaimedExponent(text) ==
    IF "ppm" \in Markers(text) THEN -6
    ELSE IF "ppb" \in Markers(text) THEN -9
    ELSE IF "Conc" \in Markers(text) THEN -6
    ELSE 0

RECURSIVE Pow10(_)
Pow10(n) == IF n = 0 THEN 1 ELSE 10 * Pow10(n - 1)

\* a and b are the same number
SciEq(a, b) ==
    IF IsNull(a.m) \/ IsNull(b.m) THEN IsNull(a.m) /\ IsNull(b.m)
    ELSE LET low == Min(a.e, b.e)
         IN  a.m[1] * Pow10(a.e - low) * b.m[2] = b.m[1] * Pow10(b.e - low) * a.m[2]

\* C17: a retained header is ppm if it contains ppm, else ppb if it contains
\* ppb, else ppm if it contains Conc; the column becomes its number times
\* 1e-6 / Vm for ppm and 1e-9 / Vm for ppb, never times 0, so that X ppb and
\* X/1000 ppm are the same mol/L; a retained header with no marker makes the
\* run fail with ValueError 'failed to detect unit for column'.
C17_UnitScale ==
    ColumnsDone =>
        /\ (\E i \in DOMAIN Retained : ClaimedExponent(HeaderOf(Retained[i])) = 0)
               => result = <<"raise", "ValueError", "failed to detect unit for column">>
        /\ result[1] = "return" =>
               /\ \A i \in DOMAIN Retained :
                    /\ lf[i].cell.over = "molar_volume"
                    /\ ClaimedExponent(HeaderOf(Retained[i])) # 0
                    /\ IF Retained[i].cell.number = Null THEN IsNull(lf[i].cell.scaled.m)
                       ELSE lf[i].cell.scaled =
                                Sci(Retained[i].cell.number,
                                    ClaimedExponent(HeaderOf(Retained[i])))
               /\ \A i, j \in DOMAIN Retained :
                    (/\ ClaimedExponent(HeaderOf(Retained[i])) = -9
                     /\ ClaimedExponent(HeaderOf(Retained[j])) = -6
                     /\ Retained[i].cell.number = Num(1000)
                     /\ Retained[j].cell.number = Num(1))
                    => SciEq(lf[i].cell.scaled, lf[j].cell.scaled)

C17_Witness ==
    /\ pc = "standardized"
    /\ args.GAS_IDENTIFIERS = GAS_IDENTIFIERS
    /\ \E i, j \in DOMAIN Retained :
        /\ HeaderOf(Retained[i]) = "NO2 (ppb)"
        /\ HeaderOf(Retained[j]) = "NO Conc"
        /\ lf[i].cell.scaled = Sci(Num(1000), -9)
        /\ lf[j].cell.scaled = Sci(Num(1), -6)
        /\ SciEq(lf[i].cell.scaled, lf[j].cell.scaled)

GasOf(c) == args.GAS_IDENTIFIERS[HeaderOf(c)]

DistinctGases == \A i, j \in DOMAIN Retained : i < j => GasOf(Retained[i]) # GasOf(Retained[j])

\* C18: for an input whose recognized headers map to distinct gases (and have
\* a unit marker) run returns one column per input column whose header without
\* whitespace is a key of the lookup table, in the input's order and named by
\* the gas symbol alone, followed by the datetime column, and nothing else.
C18_GasColumnsThenDatetime ==
    ColumnsDone =>
        /\ (DistinctGases /\ \A i \in DOMAIN Retained : Markers(HeaderOf(Retained[i])) # {})
               => result[1] = "return"
        /\ result[1] = "return" =>
               /\ Len(lf) = Len(Retained) + 1
               /\ \A i \in DOMAIN Retained : lf[i].name = Header(GasOf(Retained[i]), FALSE)
               /\ lf[Len(lf)].name = COL_DATETIME

C18_Witness ==
    /\ pc = "standardized"
    /\ Len(input) = 3 /\ Len(lf) = 2
    /\ \E i \in DOMAIN input : input[i].name = Header("Temperature", FALSE)
    /\ Retained[1].name.padded
    /\ lf[1].name = Header("CO2", FALSE)

(***************************************************************************)
(* File sniffing: process.py detect_header_row and detect_separator        *)
(*                                                                         *)
(* A line is the sequence of its tokens: a date/time text, another text,   *)
(* or one of the two separators.  dateutil.parser.parse accepts a field    *)
(* that is one date/time text and raises ValueError for any other field.   *)
(***************************************************************************)
MaxLines == 3

Separators == {",", "\t"}

RECURSIVE FirstField(_, _)
\* line.split(separator)[0]: the tokens before the first separator
FirstField(line, separator) ==
    IF line = <<>> \/ Head(line) = separator THEN <<>>
    ELSE <<Head(line)>> \o FirstField(Tail(line), separator)

\* dateutil.parser.parse(field) returns
parse(field) == field = <<"date">>

\* variant: the index of the line itself
header_row_of_data_line(i) == i

\* return i - 1 for the line of index i, counted from 0
header_row_of(i) == i - 1

\* the loop over the lines from the line of index i on (f[i + 1] here)
RECURSIVE scan_lines(_, _, _)
scan_lines(f, separator, i) ==
    IF i >= Len(f) THEN <<"raise", "ValueError", "failed to detect header">>
    ELSE IF parse(FirstField(f[i + 1], separator)) THEN <<"return", header_row_of(i)>>
    ELSE scan_lines(f, separator, i + 1)

detect_header_row(input_file, separator) == scan_lines(input_file.lines, separator, 0)

\* lines of comma and of tab separated files: data rows, header rows, a title
\* line, a row with a date in a later field only, and an empty line
Lines ==
    { <<"date", ",", "text">>, <<"date", "\t", "text">>, <<"text", ",", "text">>,
      <<"text", "\t", "text">>, <<"text", ",", "date">>, <<"text">>, <<>> }

Suffixes == {".dat", ".log", ".csv", ".txt"}

InputFiles(n) == [suffix : Suffixes, lines : SeqsUpTo(Lines, n)]

InitHeader ==
    /\ pc = "start"
    /\ lf = <<>>
    /\ input = <<>>
    /\ result = <<"none">>
    /\ files = {}
    /\ config = ScenarioConfig
    /\ args \in [input_file : {f \in InputFiles(MaxLines) : f.suffix = ".csv"}, separator : Separators]

DetectHeaderRow ==
    /\ pc = "start"
    /\ result' = detect_header_row(args.input_file, args.separator)
    /\ pc' = "header"
    /\ UNCHANGED <<lf, input, config, args, files>>

NextHeader == DetectHeaderRow

SpecHeader == InitHeader /\ [][NextHeader]_vars

\* the line of index i (from 0) has a first field that parses
ParsesAt(i) ==
    LET line == args.input_file.lines[i + 1]
        cut == CHOOSE n \in 0 .. Len(line) :
                  /\ \A k \in 1 .. n : line[k] # args.separator
                  /\ n < Len(line) => line[n + 1] = args.separator
    IN  SubSeq(line, 1, cut) = <<"date">>

LineIndices == 0 .. Len(args.input_file.lines) - 1

\* C19: detect_header_row returns the index (from 0) of the first line whose
\* first field parses as a date, minus one, whatever lines follow, and raises
\* ValueError 'failed to detect header' exactly when no line has a first field
\* that parses.
C19_FirstParseableLine ==
    pc = "header" =>
        /\ \A i \in LineIndices :
              (ParsesAt(i) /\ \A j \in LineIndices : j < i => ~ParsesAt(j))
                  => (result[1] = "return" /\ result[2] = i - 1)
        /\ (result = <<"raise", "ValueError", "failed to detect header">>)
              <=> (\A i \in LineIndices : ~ParsesAt(i))
        /\ result[1] \in {"return", "raise"}

C19_Witness ==
    /\ pc = "header"
    /\ result[1] = "return" /\ result[2] = 1
    /\ ParsesAt(2)
    /\ args.input_file.lines[1] = <<"text">>
    /\ Len(args.input_file.lines[3]) > 1

\* "\t" for the suffix .dat, "," for every other file
detect_separator(input_file) == IF input_file.suffix = ".dat" THEN "\t" ELSE ","

InitSeparator ==
    /\ pc = "start"
    /\ lf = <<>>
    /\ input = <<>>
    /\ result = <<"none">>
    /\ files = {}
    /\ config = ScenarioConfig
    /\ args \in [input_file : InputFiles(MaxLines)]

DetectSeparator ==
    /\ pc = "start"
    /\ result' = <<"return", detect_separator(args.input_file)>>
    /\ pc' = "separator"
    /\ UNCHANGED <<lf, input, config, args, files>>

NextSeparator == DetectSeparator

SpecSeparator == InitSeparator /\ [][NextSeparator]_vars

\* the file is lines of text without a separator, like the fifty x of the test
NoSeparatorInFile ==
    /\ args.input_file.lines # <<>>
    /\ \A i \in DOMAIN args.input_file.lines : args.input_file.lines[i] = <<"text">>

\* C20 as stated: detect_separator returns tab for the suffixes .dat and .log
\* and comma for .csv and .txt, and raises an error instead of returning a
\* default separator for a file whose format is not recognized.
C20_Original ==
    pc = "separator" =>
        /\ args.input_file.suffix \in {".dat", ".log"} => result = <<"return", "\t">>
        /\ (args.input_file.suffix \in {".csv", ".txt"} /\ ~NoSeparatorInFile)
               => result = <<"return", ",">>
        /\ NoSeparatorInFile => result[1] = "raise"

(***************************************************************************)
(* The labeler and the trimmer on rows in any order and beyond the run     *)
(***************************************************************************)
MaxOrderRows == 3

\* timestamps half a minute apart over two minutes
OrderTimestamps == {0, 30, 60, 90, 120}

OrderTables(n) == SeqsUpTo([datetime : OrderTimestamps], n)

\* configurations within their stated constraints
OrderConfigs ==
    {c \in [total_cycles : {1, 2}, samples_per_cycle : {1, 2},
            minutes_per_sample : {1, 2}, discard_minutes : {0, 1}] :
        c.discard_minutes < c.minutes_per_sample}

InitOrder ==
    /\ args = <<>>
    /\ result = <<"none">>
    /\ files = {}
    /\ pc = "standardized"
    /\ input = <<>>
    /\ lf \in OrderTables(MaxOrderRows)
    /\ config \in [samples : OrderConfigs, blank : {[mode |-> "sample", index |-> 1]}]

SpecOrder == InitOrder /\ [][NextLabel]_vars

\* C24 as stated: after labeling and trimming rows in non-decreasing time
\* order every retained row, also one clamped into the last cycle, has
\* (elapsed minutes since the first row) mod minutes_per_sample >= discard_minutes.
C24_Original ==
    (pc = "trimmed" /\ SortedByTime(input)) =>
        \A i \in DOMAIN lf :
            total_minutes(lf[i].datetime - input[1].datetime)
                % config.samples.minutes_per_sample >= config.samples.discard_minutes

\* C25 as stated: every row gets cycle >= 1 and sample >= 1, in any row order.
C25_Original ==
    Labeled => \A i \in DOMAIN lf : lf[i].cycle >= 1 /\ lf[i].sample >= 1

\* C25 amended: a row less than one minute before the first row, or after it,
\* gets cycle >= 1 and sample >= 1; a row one minute or more before the first
\* row gets a cycle <= 0, the lower bound not being clamped.
C25_LabelsFromFirstRow ==
    Labeled =>
        \A i \in DOMAIN lf :
            /\ ElapsedSeconds(i) > -SecondsPerMinute => (lf[i].cycle >= 1 /\ lf[i].sample >= 1)
            /\ ElapsedSeconds(i) <= -SecondsPerMinute => lf[i].cycle <= 0

C25_Witness ==
    /\ Labeled
    /\ \E i, j \in DOMAIN lf :
        /\ ElapsedSeconds(i) <= -SecondsPerMinute /\ lf[i].cycle <= 0
        /\ ElapsedSeconds(j) < 0 /\ ElapsedSeconds(j) > -SecondsPerMinute /\ lf[j].cycle = 1

\* C26 as stated: whenever detect_header_row returns, the value is a row index
\* >= 0, also for a file whose first line has a first field that parses.
C26_Original ==
    (pc = "header" /\ result[1] = "return") => result[2] >= 0

(***************************************************************************)
(* The lookup table of the standardizer against the molar-mass table       *)
(***************************************************************************)
\* the gas symbols GAS_IDENTIFIERS can produce
CanonicalGases == {GAS_IDENTIFIERS[h] : h \in DOMAIN GAS_IDENTIFIERS}

MassEntries(g) == {i \in DOMAIN molar_masses : molar_masses[i].gas = g}

\* C27: every gas symbol of GAS_IDENTIFIERS has an entry (one entry) in the
\* molar-mass table of compute_flux, and for a table of these gases the join
\* drops no row: the flux table has one row for each (cycle, sample, datetime,
\* gas) row of the unpivoted input, in the input's order.
C27_NoRowDropped ==
    /\ \A g \in CanonicalGases : Cardinality(MassEntries(g)) = 1
    /\ (pc = "flux" /\ \A i \in DOMAIN input : input[i].gas \in CanonicalGases) =>
           /\ Len(lf) = Len(input)
           /\ \A i \in DOMAIN input :
                [c \in {"cycle", "sample", "datetime", "gas"} |-> lf[i][c]]
                    = [c \in {"cycle", "sample", "datetime", "gas"} |-> input[i][c]]

C27_Witness ==
    /\ pc = "flux"
    /\ Len(input) = 2 /\ Len(lf) = 2
    /\ input[1].gas = "O3" /\ input[2].gas = "NOY-NO"
    /\ lf[1].gas = "O3" /\ lf[2].gas = "NOY-NO"
    /\ {input[i].gas : i \in DOMAIN input} \subseteq CanonicalGases

(***************************************************************************)
(* Configuration: config.py                                                *)
(***************************************************************************)
\* the fields of the dataclasses, in order, with the example of their metadata
SampleConfig ==
    << [name |-> "total_cycles", type |-> "int", example |-> 22],
       [name |-> "samples_per_cycle", type |-> "int", example |-> 6],
       [name |-> "minutes_per_sample", type |-> "int", example |-> 10],
       [name |-> "discard_minutes", type |-> "int", example |-> 2] >>

FluxConfig ==
    << [name |-> "flow_rate", type |-> "float", example |-> Sci(Num(1), -1)],
       [name |-> "soil_surface_area", type |-> "float", example |-> Sci(Num(5), -2)] >>

BlankConfig ==
    << [name |-> "mode", type |-> "str", example |-> "multiplexed"],
       [name |-> "index", type |-> "int", example |-> 1] >>

\* repr(example): a string between single quotes, a number as its digits
repr(f) == IF f.type = "str" THEN <<"'", f.example, "'">> ELSE <<f.example>>

\* section_to_toml: the [section_name] line and a key = value line per field
\* (the comment lines carry no value)
section_to_toml(section_name, fields) ==
    [name |-> section_name,
     lines |-> [i \in DOMAIN fields |-> [key |-> fields[i].name, value |-> repr(fields[i])]]]

generate_example_toml ==
    << section_to_toml("samples", SampleConfig),
       section_to_toml("flux-calculation", FluxConfig),
       section_to_toml("blank", BlankConfig) >>

\* the value tomllib reads from the text of a value: a literal string loses its quotes
toml_value(text) == IF Len(text) = 3 THEN text[2] ELSE text[1]

\* tomllib.load: a table per section, a value per key
tomllib_load(toml) ==
    [n \in {toml[i].name : i \in DOMAIN toml} |->
        LET section == toml[CHOOSE i \in DOMAIN toml : toml[i].name = n]
        IN  [k \in {section.lines[j].key : j \in DOMAIN section.lines} |->
                toml_value(section.lines[CHOOSE j \in DOMAIN section.lines :
                                            section.lines[j].key = k].value)]]

\* cls(**kwargs) of a dataclass whose fields have no default accepts the
\* keyword arguments that are exactly its fields
Accepts(fields, kwargs) == DOMAIN kwargs = {fields[i].name : i \in DOMAIN fields}

from_toml(toml) ==
    LET data == tomllib_load(toml)
    IN  IF ~({"samples", "flux-calculation", "blank"} \subseteq DOMAIN data)
        THEN <<"raise", "KeyError">>
        ELSE IF ~(/\ Accepts(SampleConfig, data["samples"])
                  /\ Accepts(FluxConfig, data["flux-calculation"])
                  /\ Accepts(BlankConfig, data["blank"]))
        THEN <<"raise", "TypeError">>
        ELSE <<"return", [samples |-> data["samples"],
                          flux    |-> data["flux-calculation"],
                          blank   |-> data["blank"]]>>

(***************************************************************************)
(* Blank handler factory: blank_handler.py, create_handler                 *)
(***************************************************************************)
create_handler(blank) ==
    IF blank.mode = "sample"
    THEN <<"return", [class |-> "SampleBlankHandler", index |-> blank.index]>>
    ELSE IF blank.mode = "cycle"
    THEN <<"return", [class |-> "CycleBlankHandler", index |-> blank.index]>>
    ELSE <<"raise", "ValueError", "unsupported blank mode">>

(***************************************************************************)
(* The run: process.py, process_file                                       *)
(*                                                                         *)
(* A file is the lines detect_header_row reads and the first column polars *)
(* reads below the header.  The gas columns are taken to be recognized     *)
(* columns of distinct gases, so that of the table only the index columns  *)
(* (cycle, sample, datetime) are followed through the stages.              *)
(***************************************************************************)
MaxRunRows == 2

\* timestamps like 2025-01-01 00:02:00, some minutes into the first of January
RunStrings == [layout : {"Y-a-b H:M:S"}, a : {1}, b : {1}, minute : {0, 1, 2}]

RunColumns(n) == SeqsUpTo(RunStrings, n) \cup {<<Unparseable>>}

\* a header and a data row, a data row alone, a title alone
RunLines ==
    { << <<"text", ",", "text">>, <<"date", ",", "text">> >>,
      << <<"text", "\t", "text">>, <<"date", "\t", "text">> >>,
      << <<"date", ",", "text">> >>,
      << <<"text">> >> }

RunFiles(n) ==
    [stem : {"FTIR"}, suffix : {".csv", ".dat"}, lines : RunLines, column : RunColumns(n)]

\* flux sections as from_toml builds them and as a caller that sets the
\* attribute chamber_volume on the object has them
RunFluxConfigs ==
    [flow_rate : {Sci(Num(0), 0), Sci(Num(1), 0)}, soil_surface_area : {Sci(Num(1), 0)}]
    \cup [flow_rate : {Sci(Num(0), 0), Sci(Num(1), 0)}, soil_surface_area : {Sci(Num(1), 0)},
          chamber_volume : {Sci(Num(1), 0)}]

RunConfigs ==
    [samples : [total_cycles : {0, 2}, samples_per_cycle : {2},
                minutes_per_sample : {1}, discard_minutes : {0, 1}],
     flux    : RunFluxConfigs,
     blank   : [mode : {"sample", "cycle", "multiplexed"}, index : {0, 1}]]

\* the configuration read from the example file
ExampleConfig == from_toml(generate_example_toml)[2]

InitRun ==
    /\ pc = "run"
    /\ lf = <<>>
    /\ input = <<>>
    /\ result = <<"none">>
    /\ files = {}
    /\ args \in [input_file : RunFiles(MaxRunRows)]
    /\ config \in RunConfigs \cup {ExampleConfig}

\* variant: the run goes on after a stage that raised
stage_after_swallowed(stage, out) == stage

\* where process_file is after a stage: an exception leaves the function
stage_after(stage, out) == IF out[1] = "raise" THEN "failed" ELSE stage

\* what process_file did so far: nothing, or the exception of the stage
result_after(out) == IF out[1] = "raise" THEN out ELSE <<"none">>

\* separator = detect_separator(input_file)
RunDetectSeparator ==
    /\ pc = "run"
    /\ args' = args @@ ("separator" :> detect_separator(args.input_file))
    /\ pc' = "run_separator"
    /\ UNCHANGED <<lf, input, config, result, files>>

\* skip_rows = detect_header_row(input_file, separator)
RunDetectHeaderRow ==
    /\ pc = "run_separator"
    /\ LET out == detect_header_row(args.input_file, args.separator)
       IN  /\ args' = IF out[1] = "return" THEN args @@ ("skip_rows" :> out[2]) ELSE args
           /\ result' = result_after(out)
           /\ pc' = stage_after("run_header", out)
    /\ UNCHANGED <<lf, input, config, files>>

\* pl.scan_csv(input_file, skip_rows=skip_rows, ...): the rows below the
\* header; a negative skip_rows is no unsigned integer
scan_csv(input_file, skip_rows) ==
    IF skip_rows < 0 THEN [result |-> <<"raise", "OverflowError">>, lf |-> <<>>]
    ELSE [result |-> <<"return">>,
          lf |-> [i \in DOMAIN input_file.column |-> [datetime |-> input_file.column[i]]]]

RunScanCsv ==
    /\ pc = "run_header"
    /\ LET out == scan_csv(args.input_file, args.skip_rows)
       IN  /\ lf' = out.lf
           /\ result' = result_after(out.result)
           /\ pc' = stage_after("run_scanned", out.result)
    /\ UNCHANGED <<input, config, args, files>>

\* blank_handler = BlankHandler.create_handler(config.blank)
RunCreateHandler ==
    /\ pc = "run_scanned"
    /\ LET out == create_handler(config.blank)
       IN  /\ args' = IF out[1] = "return" THEN args @@ ("blank_handler" :> out[2]) ELSE args
           /\ result' = result_after(out)
           /\ pc' = stage_after("run_handler", out)
    /\ UNCHANGED <<lf, input, config, files>>

\* the datetime column of polars, in seconds
in_seconds(t) == [i \in DOMAIN t |-> [datetime |-> t[i].datetime * SecondsPerMinute]]

\* lf.pipe(standardizer.run)
RunStandardize ==
    /\ pc = "run_handler"
    /\ LET out == standardize_datetime(lf)
       IN  /\ lf' = IF out.result[1] = "return" THEN in_seconds(out.lf) ELSE lf
           /\ result' = result_after(out.result)
           /\ pc' = stage_after("run_standardized", out.result)
    /\ UNCHANGED <<input, config, args, files>>

\* .pipe(label_rows_by_time, ...).pipe(remove_transition_minutes, ...).pipe(unpivot)
RunLabelAndTrim ==
    /\ pc = "run_standardized"
    /\ lf' = remove_transition_minutes(
                 label_rows_by_time(lf, config.samples.total_cycles,
                                    config.samples.minutes_per_sample,
                                    config.samples.samples_per_cycle),
                 config.samples.discard_minutes)
    /\ pc' = "run_unpivoted"
    /\ UNCHANGED <<input, config, args, result, files>>

\* the arguments config.flux.flow_rate, config.flux.chamber_volume and
\* config.flux.soil_surface_area of .pipe(compute_flux, ...)
flux_arguments(flux) ==
    IF {"flow_rate", "chamber_volume", "soil_surface_area"} \subseteq DOMAIN flux
    THEN <<"return", flux.flow_rate, flux.chamber_volume, flux.soil_surface_area>>
    ELSE <<"raise", "AttributeError">>

\* .pipe(compute_flux, ...)
RunComputeFlux ==
    /\ pc = "run_unpivoted"
    /\ LET out == flux_arguments(config.flux)
       IN  /\ result' = result_after(out)
           /\ pc' = stage_after("run_flux", out)
    /\ UNCHANGED <<lf, input, config, args, files>>

\* the rows blank_handler.run keeps: those that are not the blank
not_blank(t, blank_handler) ==
    IF blank_handler.class = "SampleBlankHandler"
    THEN SelectSeq(t, LAMBDA r : r.sample # blank_handler.index)
    ELSE SelectSeq(t, LAMBDA r : r.cycle # blank_handler.index)

\* .pipe(blank_handler.run).pipe(compute_statistics).pipe(reformat_for_output):
\* one row per (cycle, sample, datetime), sorted
RunCorrectAndReformat ==
    /\ pc = "run_flux"
    /\ lf' = sort(Distinct(not_blank(lf, args.blank_handler)))
    /\ pc' = "run_reformatted"
    /\ UNCHANGED <<input, config, args, result, files>>

\* input_file.with_name(f"{input_file.stem}_out.csv")
output_file(input_file) == [stem |-> <<input_file.stem, "_out">>, suffix |-> ".csv"]

\* df.write_csv(output_file): the file is created or replaced
write_csv(written, file, df) ==
    {w \in written : w.file # file} \cup {[file |-> file, df |-> df]}

RunWriteCsv ==
    /\ pc = "run_reformatted"
    /\ files' = write_csv(files, output_file(args.input_file), lf)
    /\ result' = <<"return">>
    /\ pc' = "written"
    /\ UNCHANGED <<lf, input, config, args>>

NextRun ==
    \/ RunDetectSeparator
    \/ RunDetectHeaderRow
    \/ RunScanCsv
    \/ RunCreateHandler
    \/ RunStandardize
    \/ RunLabelAndTrim
    \/ RunComputeFlux
    \/ RunCorrectAndReformat
    \/ RunWriteCsv

SpecRun == InitRun /\ [][NextRun]_vars

(***************************************************************************)
(* Properties of the run                                                   *)
(***************************************************************************)
RunOver == pc \in {"written", "failed"}

\* separator and header detection, scanning and the datetime column succeed
FileIsFine ==
    LET f == args.input_file
        header == detect_header_row(f, detect_separator(f))
    IN  /\ header[1] = "return"
        /\ header[2] >= 0
        /\ standardize_datetime([i \in DOMAIN f.column |-> [datetime |-> f.column[i]]])
               .result[1] = "return"

\* the constraints on the configuration
Violations ==
    { v \in {"total_cycles", "samples_per_cycle", "minutes_per_sample", "discard_minutes",
             "flow_rate", "soil_surface_area", "blank.index", "blank.mode"} :
        \/ v = "total_cycles" /\ config.samples.total_cycles <= 0
        \/ v = "samples_per_cycle" /\ config.samples.samples_per_cycle <= 0
        \/ v = "minutes_per_sample" /\ config.samples.minutes_per_sample <= 0
        \/ v = "discard_minutes"
             /\ \/ config.samples.discard_minutes < 0
                \/ config.samples.discard_minutes >= config.samples.minutes_per_sample
        \/ v = "flow_rate" /\ config.flux.flow_rate.m[1] <= 0
        \/ v = "soil_surface_area" /\ config.flux.soil_surface_area.m[1] <= 0
        \/ v = "blank.index" /\ config.blank.index < 1
        \/ v = "blank.mode" /\ config.blank.mode \notin {"sample", "cycle"} }

\* the one error the code raises for a value of the configuration
ConfigurationError == result = <<"raise", "ValueError", "unsupported blank mode">>

\* C21 as stated: a run on a readable file whose configuration violates a
\* constraint ends with a configuration error, and writes no output.
C21_Original ==
    (RunOver /\ FileIsFine /\ Violations # {}) => (ConfigurationError /\ files = {})

\* C22 as stated: the configuration read from the example file has blank.mode
\* 'sample', blank.index 1 and the field flux.chamber_volume, create_handler
\* accepts its mode, and a run with it on a readable file ends with the output
\* written.
C22_Original ==
    (config = ExampleConfig /\ RunOver /\ FileIsFine) =>
        /\ config.blank.mode = "sample"
        /\ config.blank.index = 1
        /\ create_handler(config.blank)[1] = "return"
        /\ "chamber_volume" \in DOMAIN config.flux
        /\ pc = "written"

\* every stage before the write succeeds on the file and the configuration
AllStagesSucceed ==
    /\ FileIsFine
    /\ create_handler(config.blank)[1] = "return"
    /\ flux_arguments(config.flux)[1] = "return"

\* C23: an output file exists only when the run is over and every stage before
\* the write succeeded, and it is the one file <stem>_out.csv; a stage that
\* raises ends the run with its exception and without an output file.
C23_NoPartialOutput ==
    /\ files # {} =>
          /\ pc = "written" /\ result = <<"return">>
          /\ AllStagesSucceed
          /\ \A w \in files : w.file = output_file(args.input_file)
          /\ Cardinality(files) = 1
    /\ result[1] = "raise" <=> pc = "failed"
    /\ pc = "failed" => files = {} /\ ~AllStagesSucceed

C23_Witness ==
    /\ pc = "written"
    /\ \E w \in files : w.file = output_file(args.input_file) /\ w.df # <<>>
    /\ AllStagesSucceed
====
